---- MODULE Spec2Model ----
(***************************************************************************)
(* A model of utils/packsource.py: the directory walk and classification   *)
(* (get_all_files), the import scan (extract_dependencies), the report,    *)
(* summary and combined writers, the plugin packaging, and the __main__    *)
(* pipeline run repeatedly on one project tree.                            *)
(*                                                                         *)
(* A Python str is a sequence of one-character strings; a path on disk is  *)
(* a sequence of names (segments) below ROOT_DIR.                          *)
(***************************************************************************)
EXTENDS Integers, Sequences, FiniteSets, TLC

VARIABLES
    platform,        \* "posix" or "nt": decides os.sep and os.path.normcase
    root_segs,       \* the names of ROOT_DIR's absolute path
    fs,              \* the disk: path below ROOT_DIR -> [readable, text, isdir]
    pc,              \* position of the running script
    walk,            \* get_all_files: os.walk's stack and the three lists
    processed_dirs,  \* __main__'s dict: dir_name -> (dir_path, (included, excluded), dependencies)
    run,             \* how many times the script has been started
    prev,            \* the report and summary the previous run left on disk
    content,         \* extract_dependencies: the text of the file scanned
    stmts,           \* the import specifiers the text's statements were built from
    dependencies     \* extract_dependencies: the set it returns

vars == <<platform, root_segs, fs, pc, walk, processed_dirs, run, prev,
          content, stmts, dependencies>>

(***************************************************************************)
(* Bounds of the model                                                     *)
(***************************************************************************)
MaxStmts == 2
MaxFiles == 3
MaxRuns == 2

(***************************************************************************)
(* Python str operations                                                   *)
(***************************************************************************)
\* The printable ASCII characters in code-point order, 32..126 (code 96, the
\* grave accent, is spelled out: no string of the model holds it).
Ascii ==
    <<" ", "!", "\"", "#", "$", "%", "&", "'", "(", ")", "*", "+", ",", "-", ".", "/",
      "0", "1", "2", "3", "4", "5", "6", "7", "8", "9", ":", ";", "<", "=", ">", "?",
      "@", "A", "B", "C", "D", "E", "F", "G", "H", "I", "J", "K", "L", "M", "N", "O",
      "P", "Q", "R", "S", "T", "U", "V", "W", "X", "Y", "Z", "[", "\\", "]", "^", "_",
      "<grave>", "a", "b", "c", "d", "e", "f", "g", "h", "i", "j", "k", "l", "m", "n", "o",
      "p", "q", "r", "s", "t", "u", "v", "w", "x", "y", "z", "{", "|", "}", "~">>

\* ord() of each printable character
OrdTable == [c \in {Ascii[i] : i \in 1..Len(Ascii)} |->
                31 + (CHOOSE i \in 1..Len(Ascii) : Ascii[i] = c)]

\* ord(c) for the characters of the model (the control characters \t, \n, \r
\* and \f all sort before the printable ones; the model never orders two of them)
Ord(c) == IF c \in DOMAIN OrdTable THEN OrdTable[c] ELSE 10

\* str.lower() of each printable character: A..Z (65..90) move up by 32
LowerTable == [c \in DOMAIN OrdTable |->
                  IF OrdTable[c] >= 65 /\ OrdTable[c] <= 90
                  THEN Ascii[OrdTable[c] + 32 - 31] ELSE c]

\* str.lower() on one character.
LowerChar(c) == IF c \in DOMAIN LowerTable THEN LowerTable[c] ELSE c

\* str.lower()
Lower(s) == [i \in 1..Len(s) |-> LowerChar(s[i])]

\* s[i:] with a 1-based start.
Drop(s, i) == SubSeq(s, i, Len(s))

\* true when `needle` occurs in `s` starting at index i
OccursAt(s, needle, i) ==
    /\ i >= 1
    /\ i + Len(needle) - 1 <= Len(s)
    /\ \A k \in 1..Len(needle) : s[i + k - 1] = needle[k]

\* needle in s
Contains(s, needle) == \E i \in 1..(Len(s) + 1) : OccursAt(s, needle, i)

\* s.startswith(p)
StartsWith(s, p) == OccursAt(s, p, 1)

\* s.endswith(p)
EndsWith(s, p) == Len(p) <= Len(s) /\ OccursAt(s, p, Len(s) - Len(p) + 1)

\* the index of the first c in s, or 0
IndexOf(s, c) ==
    IF \E i \in 1..Len(s) : s[i] = c
    THEN CHOOSE i \in 1..Len(s) : s[i] = c /\ \A j \in 1..(i - 1) : s[j] # c
    ELSE 0

\* s.split(c)
RECURSIVE Split(_, _)
Split(s, c) ==
    LET i == IndexOf(s, c)
    IN  IF i = 0 THEN <<s>>
        ELSE <<SubSeq(s, 1, i - 1)>> \o Split(Drop(s, i + 1), c)

\* sep.join(parts)
RECURSIVE Join(_, _)
Join(sep, parts) ==
    IF Len(parts) = 0 THEN <<>>
    ELSE IF Len(parts) = 1 THEN parts[1]
    ELSE parts[1] \o sep \o Join(sep, Tail(parts))

\* a < b on str: code-point lexicographic order
RECURSIVE StrLess(_, _)
StrLess(a, b) ==
    IF Len(b) = 0 THEN FALSE
    ELSE IF Len(a) = 0 THEN TRUE
    ELSE IF Ord(a[1]) # Ord(b[1]) THEN Ord(a[1]) < Ord(b[1])
    ELSE StrLess(Tail(a), Tail(b))

\* sorted(S) of a set of str
RECURSIVE Sorted(_)
Sorted(S) ==
    IF S = {} THEN <<>>
    ELSE LET m == CHOOSE x \in S : \A y \in S \ {x} : StrLess(x, y)
         IN  <<m>> \o Sorted(S \ {m})

(***************************************************************************)
(* extract_dependencies (lines 19, 46-54)                                  *)
(***************************************************************************)
\* \s of the re module, on the characters of the model
IsSpace(c) == c \in {" ", "\t", "\n", "\r", "\f"}

\* ['\"] of DEPENDENCY_PATTERN
IsQuote(c) == c \in {"'", "\""}

kw_import == <<"i", "m", "p", "o", "r", "t">>
kw_from == <<"f", "r", "o", "m">>

\* the length of the longest run of \s characters of s that starts at index i
SpaceRun(s, i) ==
    CHOOSE n \in 0..(Len(s) - i + 1) :
        /\ \A k \in 0..(n - 1) : IsSpace(s[i + k])
        /\ (i + n > Len(s) \/ ~IsSpace(s[i + n]))

NoMatch == [ok |-> FALSE, group |-> <<>>, end |-> 0]

\* from\s+['\"]([^'\"]+)['\"] matched at index p. \s+ must stop at a quote, and
\* [^'\"]+ must stop at the next quote, so the match is unique when there is one.
\* `end` is the index after the match.
FromTailAt(s, p) ==
    IF ~OccursAt(s, kw_from, p) THEN NoMatch
    ELSE LET w == SpaceRun(s, p + 4)
             q == p + 4 + w
         IN  IF w = 0 \/ q > Len(s) \/ ~IsQuote(s[q]) THEN NoMatch
             ELSE LET rest == {e \in (q + 1)..Len(s) : IsQuote(s[e])}
                  IN  IF rest = {} THEN NoMatch
                      ELSE LET e == CHOOSE x \in rest : \A y \in rest : x <= y
                           IN  IF e = q + 1 THEN NoMatch
                               ELSE [ok |-> TRUE, group |-> SubSeq(s, q + 1, e - 1),
                                     end |-> e + 1]

\* DEPENDENCY_PATTERN matched at index i: import, then \s+ (greedy: the longest
\* run first, then shorter ones), then .*? (lazy: the fewest characters first,
\* none of them a newline), then the tail above.
PatternAt(s, i) ==
    IF ~OccursAt(s, kw_import, i) THEN NoMatch
    ELSE LET K == SpaceRun(s, i + 6)
             Cand(k) == {p \in (i + 6 + k)..Len(s) :
                            /\ \A x \in (i + 6 + k)..(p - 1) : s[x] # "\n"
                            /\ FromTailAt(s, p).ok}
             ks == {k \in 1..K : Cand(k) # {}}
         IN  IF ks = {} THEN NoMatch
             ELSE LET k == CHOOSE x \in ks : \A y \in ks : x >= y
                      p == CHOOSE x \in Cand(k) : \A y \in Cand(k) : x <= y
                  IN  FromTailAt(s, p)

\* re.findall(DEPENDENCY_PATTERN, s) from index i on: the leftmost match, then
\* the search goes on after it (matches do not overlap).
RECURSIVE FindAll(_, _)
FindAll(s, i) ==
    IF i > Len(s) THEN <<>>
    ELSE IF s[i] # "i" THEN FindAll(s, i + 1)
    ELSE LET m == PatternAt(s, i)
         IN  IF m.ok THEN <<m.group>> \o FindAll(s, m.end)
             ELSE FindAll(s, i + 1)

\* a plausible slip: the relative imports are kept
ExtractDependencies_KeepRelative(text) ==
    LET matches == FindAll(text, 1)
    IN  {Split(matches[j], "/")[1] : j \in 1..Len(matches)}

\* extract_dependencies on the text read from the file (lines 49-54)
ExtractDependencies(text) ==
    LET matches == FindAll(text, 1)
    IN  {Split(matches[j], "/")[1] :
            j \in {x \in 1..Len(matches) : ~StartsWith(matches[x], <<".">>)}}

(***************************************************************************)
(* The texts the import scan is checked on: lines of JavaScript, each an   *)
(* import statement (or another line) around one quoted specifier.         *)
(***************************************************************************)
sp_react == <<"r", "e", "a", "c", "t">>
sp_local == <<".", "/", "l", "o", "c", "a", "l", "/", "f", "i", "l", "e">>
sp_scope == <<"@", "s", "c", "o", "p", "e", "/", "p", "k", "g", "/", "s", "u", "b">>
sp_lodash == <<"l", "o", "d", "a", "s", "h", "/", "d", "e", "b", "o", "u", "n", "c", "e">>
sp_abs == <<"/", "a", "b", "s", "/", "m", "o", "d">>
sp_up == <<".", ".", "/", "u", "p">>

Specifiers == {sp_react, sp_local, sp_scope, sp_lodash, sp_abs, sp_up}

\* "default": import x from "S"      "named": import {a} from 'S';
\* "side":    import "S"             "plain": const q = "S"
\* "multi":   import {                (the import list is on lines of its own)
\*              a
\*            } from "S"
Templates == {"default", "named", "side", "plain", "multi"}

Render(st) ==
    CASE st.tmpl = "default" ->
            kw_import \o <<" ", "x", " ">> \o kw_from \o <<" ", "\"">> \o st.spec
                \o <<"\"", "\n">>
      [] st.tmpl = "named" ->
            kw_import \o <<" ", "{", "a", "}", " ">> \o kw_from \o <<" ", "'">> \o st.spec
                \o <<"'", ";", "\n">>
      [] st.tmpl = "side" ->
            kw_import \o <<" ", "\"">> \o st.spec \o <<"\"", "\n">>
      [] st.tmpl = "multi" ->
            kw_import \o <<" ", "{", "\n", " ", "a", "\n", "}", " ">> \o kw_from
                \o <<" ", "\"">> \o st.spec \o <<"\"", "\n">>
      [] OTHER ->
            <<"c", "o", "n", "s", "t", " ", "q", " ", "=", " ", "\"">> \o st.spec
                \o <<"\"", "\n">>

RECURSIVE RenderAll(_)
RenderAll(ss) == IF ss = <<>> THEN <<>> ELSE Render(Head(ss)) \o RenderAll(Tail(ss))

Statements == [tmpl : Templates, spec : Specifiers]

StatementLists == UNION {[1..n -> Statements] : n \in 0..MaxStmts}

\* The values the variables of the other specifications hold in this one.
Idle ==
    /\ platform = "posix"
    /\ root_segs = <<>>
    /\ fs = <<>>
    /\ walk = <<>>
    /\ processed_dirs = <<>>
    /\ run = 0
    /\ prev = <<>>

InitDeps ==
    /\ Idle
    /\ stmts \in StatementLists
    /\ content = RenderAll(stmts)
    /\ dependencies = {}
    /\ pc = "scan"

\* extract_dependencies called on one file's text
ExtractStep ==
    /\ pc = "scan"
    /\ dependencies' = ExtractDependencies(content)
    /\ pc' = "scanned"
    /\ UNCHANGED <<platform, root_segs, fs, walk, processed_dirs, run, prev, content, stmts>>

NextDeps == ExtractStep

SpecDeps == InitDeps /\ [][NextDeps]_vars

\* the prefix of a specifier before its first "/" (the whole of it without one)
TopLevel(spec) ==
    IF \E i \in 1..Len(spec) : spec[i] = "/"
    THEN SubSeq(spec, 1, (CHOOSE i \in 1..Len(spec) :
                              spec[i] = "/" /\ \A j \in 1..(i - 1) : spec[j] # "/") - 1)
    ELSE spec

\* the specifiers of the import ... from statements of the text
FromSpecs == {stmts[j].spec : j \in {x \in 1..Len(stmts) : stmts[x].tmpl \in {"default", "named"}}}

\* C5: extract_dependencies returns exactly the top-level prefixes of the
\* specifiers of the single-line import ... from statements that do not start
\* with "."; react gives react, ./local/file nothing, @scope/pkg/sub @scope,
\* lodash/debounce lodash, and the result is a set.
C5_ExtractExact ==
    pc = "scanned" =>
        /\ dependencies = {TopLevel(sp) : sp \in {x \in FromSpecs : x[1] # "."}}
        /\ (sp_react \in FromSpecs => sp_react \in dependencies)
        /\ (sp_scope \in FromSpecs => <<"@", "s", "c", "o", "p", "e">> \in dependencies)
        /\ (sp_lodash \in FromSpecs => <<"l", "o", "d", "a", "s", "h">> \in dependencies)
        /\ (FromSpecs \subseteq {sp_local, sp_up} => dependencies = {})
        /\ \A d \in dependencies : ~StartsWith(d, <<".">>)

\* a text importing lodash twice, a scoped package and a relative file has been scanned
C5_Witness ==
    /\ pc = "scanned"
    /\ Len(stmts) = 2
    /\ stmts[1].spec = sp_lodash /\ stmts[2].spec = sp_lodash
    /\ stmts[1].tmpl = "default" /\ stmts[2].tmpl = "named"
    /\ dependencies = {<<"l", "o", "d", "a", "s", "h">>}

\* C10: every name extract_dependencies returns is non-empty, holds no "/" and
\* does not start with ".".
C10_WellFormedNames ==
    \A d \in dependencies :
        /\ Len(d) > 0
        /\ ~Contains(d, <<"/">>)
        /\ ~StartsWith(d, <<".">>)

(***************************************************************************)
(* The classification rules (lines 13-17)                                  *)
(***************************************************************************)
FILE_TYPES ==
    <<<<".", "j", "s">>,
      <<".", "j", "s", "x">>,
      <<".", "t", "s">>,
      <<".", "t", "s", "x">>,
      <<".", "p", "r", "i", "s", "m", "a">>,
      <<".", "m", "d">>,
      <<".", "s", "c", "s", "s">>,
      <<".", "c", "s", "s">>,
      <<".", "m", "d", "x">>>>

EXCLUDE_FOLDERS ==
    <<<<".", "n", "e", "x", "t">>,
      <<"n", "o", "d", "e", "_", "m", "o", "d", "u", "l", "e", "s">>,
      <<".", "v", "s", "c", "o", "d", "e">>,
      <<".", "g", "i", "t">>,
      <<".", "c", "o", "n", "t", "e", "n", "t", "l", "a", "y", "e", "r">>,
      <<".", "h", "u", "s", "k", "y">>,
      <<"u", "t", "i", "l", "s">>>>

EXCLUDE_FILES ==
    <<<<"p", "a", "c", "k", "a", "g", "e", "-", "l", "o", "c", "k", ".", "j", "s", "o", "n">>,
      <<"*", ".", "l", "o", "g">>,
      <<"*", ".", "l", "o", "c", "k">>,
      <<"*", ".", "e", "n", "v">>,
      <<"*", ".", "t", "e", "s", "t", ".", "j", "s">>,
      <<"*", ".", "s", "p", "e", "c", ".", "j", "s">>,
      <<"*", ".", "m", "a", "p">>,
      <<"p", "n", "p", "m", "-", "l", "o", "c", "k", ".", "y", "a", "m", "l">>,
      <<"p", "n", "p", "m", "-", "w", "o", "r", "k", "s", "p", "a", "c", "e", ".", "y", "a", "m", "l">>>>

INCLUDE_SUBDIRS ==
    <<<<"a", "p", "p">>,
      <<"s", "r", "c">>,
      <<"p", "a", "g", "e", "s">>,
      <<"c", "o", "m", "p", "o", "n", "e", "n", "t", "s">>,
      <<"l", "i", "b">>,
      <<"m", "o", "d", "e", "l", "s">>,
      <<"a", "p", "i">>>>

RELEVANT_FILES ==
    <<<<"t", "r", "e", "l", "l", "o">>,
      <<"b", "o", "a", "r", "d">>,
      <<"c", "a", "r", "d">>,
      <<"l", "i", "s", "t">>,
      <<"c", "l", "o", "u", "d", "i", "n", "a", "r", "y">>,
      <<"i", "m", "a", "g", "e">>,
      <<"u", "p", "l", "o", "a", "d">>,
      <<"p", "r", "i", "s", "m", "a">>,
      <<"s", "c", "h", "e", "m", "a">>,
      <<"m", "o", "d", "e", "l">>>>

\* the elements of a list
Elems(seq) == {seq[i] : i \in 1..Len(seq)}

(***************************************************************************)
(* os.path and fnmatch                                                     *)
(***************************************************************************)
\* os.sep
Sep(pl) == IF pl = "nt" THEN "\\" ELSE "/"

\* os.path.normcase: the identity on posix; lower case and "/" to "\" on nt
NormCase(s, pl) ==
    IF pl = "nt"
    THEN [i \in 1..Len(s) |-> IF s[i] = "/" THEN "\\" ELSE LowerChar(s[i])]
    ELSE s

\* fnmatch.fnmatchcase for patterns of literals, "*" and "?" (EXCLUDE_FILES
\* holds no "[")
RECURSIVE GlobMatch(_, _)
GlobMatch(name, pat) ==
    IF pat = <<>> THEN name = <<>>
    ELSE IF pat[1] = "*"
         THEN \E k \in 0..Len(name) : GlobMatch(Drop(name, k + 1), Tail(pat))
    ELSE IF name = <<>> THEN FALSE
    ELSE (pat[1] = "?" \/ pat[1] = name[1]) /\ GlobMatch(Tail(name), Tail(pat))

\* fnmatch.fnmatch: both arguments go through os.path.normcase first
Fnmatch(name, pat, pl) == GlobMatch(NormCase(name, pl), NormCase(pat, pl))

\* os.path.abspath of a directory given by its names: "/a/b" or "C:\a\b"
AbsPath(segs, pl) ==
    (IF pl = "nt" THEN <<"C", ":">> ELSE <<>>)
        \o <<Sep(pl)>> \o Join(<<Sep(pl)>>, segs)

\* os.path.join(a, b) for a relative b
PathJoin(a, b, pl) == a \o <<Sep(pl)>> \o b

\* os.path.relpath(path, start) for a path below start
RelPath(path, start, pl) == Drop(path, Len(start) + 2)

(***************************************************************************)
(* The directory tree: a function from paths to entries, each path the     *)
(* names from ROOT_DIR down to a file (or to a directory made by           *)
(* os.makedirs). os.scandir lists a directory in the                       *)
(* file system's own order, which is fixed while the tree is unchanged:    *)
(* the model lists names in code-point order.                              *)
(***************************************************************************)
IsPrefix(dir, path) == Len(dir) <= Len(path) /\ SubSeq(path, 1, Len(dir)) = dir

\* the subdirectories of dir (the `dirs` os.walk yields): the names with
\* something below them, and the directories made by os.makedirs
ChildDirs(disk, dir) ==
    {q[Len(dir) + 1] :
        q \in {x \in DOMAIN disk :
                  /\ IsPrefix(dir, x)
                  /\ \/ Len(x) > Len(dir) + 1
                     \/ Len(x) = Len(dir) + 1 /\ disk[x].isdir}}

\* the files of dir (the `files` os.walk yields)
ChildFiles(disk, dir) ==
    {q[Len(dir) + 1] :
        q \in {x \in DOMAIN disk :
                  IsPrefix(dir, x) /\ Len(x) = Len(dir) + 1 /\ ~disk[x].isdir}}

(***************************************************************************)
(* get_all_files (lines 21-44)                                             *)
(***************************************************************************)
\* a plausible slip: the exclusion folders are not pruned
PruneDirs_Keep(dirs) == dirs

\* line 25: dirs[:] = [d for d in dirs if d not in EXCLUDE_FOLDERS]
PruneDirs(dirs) == SelectSeq(dirs, LAMBDA d : d \notin Elems(EXCLUDE_FOLDERS))

\* line 27: any(subdir in root for subdir in INCLUDE_SUBDIRS), root being the
\* path os.walk yields: root_dir itself joined with the names below it
GateOpen(root) == \E subdir \in Elems(INCLUDE_SUBDIRS) : Contains(root, subdir)

\* line 34: the extension test and the exclusion globs, on the bare file name
Admitted(file, pl) ==
    /\ \E t \in Elems(FILE_TYPES) : EndsWith(Lower(file), t)
    /\ ~\E pattern \in Elems(EXCLUDE_FILES) : Fnmatch(file, pattern, pl)

\* line 35: any(keyword in relative_path.lower() for keyword in RELEVANT_FILES)
Relevant(relative_path) ==
    \E keyword \in Elems(RELEVANT_FILES) : Contains(Lower(relative_path), keyword)

\* a plausible slip: the else branch of line 39 is lost
AppendFile_NoElse(w, relative_path, file, pl) ==
    LET listed ==
            IF Admitted(file, pl)
            THEN IF Relevant(relative_path)
                 THEN [w EXCEPT !.included_files = Append(@, relative_path)]
                 ELSE [w EXCEPT !.excluded_files = Append(@, relative_path)]
            ELSE w
    IN  [listed EXCEPT !.all_files = Append(@, relative_path)]

\* lines 34-42: one file of an admitted directory goes to one of the two lists
\* and to all_files
AppendFile(w, relative_path, file, pl) ==
    LET listed ==
            IF Admitted(file, pl)
            THEN IF Relevant(relative_path)
                 THEN [w EXCEPT !.included_files = Append(@, relative_path)]
                 ELSE [w EXCEPT !.excluded_files = Append(@, relative_path)]
            ELSE [w EXCEPT !.excluded_files = Append(@, relative_path)]
    IN  [listed EXCEPT !.all_files = Append(@, relative_path)]

\* lines 30-42: the loop over the files of one directory
RECURSIVE AppendFiles(_, _, _, _, _)
AppendFiles(w, files, root, root_dir, pl) ==
    IF files = <<>> THEN w
    ELSE LET file == Head(files)
             file_path == PathJoin(root, file, pl)
             relative_path == RelPath(file_path, root_dir, pl)
         IN  AppendFiles(AppendFile(w, relative_path, file, pl), Tail(files),
                         root, root_dir, pl)

\* the path os.walk yields for the directory `dir` below root_dir
WalkRoot(dir, root_dir, pl) ==
    IF dir = <<>> THEN root_dir ELSE PathJoin(root_dir, Join(<<Sep(pl)>>, dir), pl)

\* lines 24-42: one iteration of the os.walk loop, on the directory at the top
\* of the stack: prune its subdirectories, test the gate, classify its files;
\* the subdirectories left are walked next, before the directory's siblings.
WalkVisit(w, disk, root_dir, pl) ==
    LET dir == Head(w.stack)
        root == WalkRoot(dir, root_dir, pl)
        dirs == PruneDirs(Sorted(ChildDirs(disk, dir)))
        files == Sorted(ChildFiles(disk, dir))
        below == [i \in 1..Len(dirs) |-> Append(dir, dirs[i])]
        next == [w EXCEPT !.stack = below \o Tail(w.stack)]
    IN  IF ~GateOpen(root) THEN next
        ELSE AppendFiles(next, files, root, root_dir, pl)

\* line 22 and os.walk(root_dir) before its first iteration
WalkStart ==
    [stack |-> <<<<>>>>, all_files |-> <<>>, included_files |-> <<>>,
     excluded_files |-> <<>>]

\* get_all_files as a whole: the loop run until os.walk is exhausted
RECURSIVE WalkAll(_, _, _, _)
WalkAll(w, disk, root_dir, pl) ==
    IF w.stack = <<>> THEN w ELSE WalkAll(WalkVisit(w, disk, root_dir, pl), disk, root_dir, pl)

GetAllFiles(disk, root_dir, pl) == WalkAll(WalkStart, disk, root_dir, pl)

(***************************************************************************)
(* Names of the trees the model walks                                      *)
(***************************************************************************)
n_app == <<"a", "p", "p">>
n_lib == <<"l", "i", "b">>
n_src == <<"s", "r", "c">>
n_docs == <<"d", "o", "c", "s">>
n_utils == <<"u", "t", "i", "l", "s">>
n_mapper == <<"m", "a", "p", "p", "e", "r">>
n_node_modules == <<"n", "o", "d", "e", "_", "m", "o", "d", "u", "l", "e", "s">>
n_react == <<"r", "e", "a", "c", "t">>
n_output == <<"o", "u", "t", "p", "u", "t">>
n_payload_plugin == <<"p", "a", "y", "l", "o", "a", "d", "-", "p", "l", "u", "g", "i", "n">>
f_TrelloBoard == <<"T", "r", "e", "l", "l", "o", "B", "o", "a", "r", "d", ".", "t", "s", "x">>
f_Readme == <<"R", "e", "a", "d", "m", "e", ".", "m", "d">>
f_BoardTEST == <<"B", "o", "a", "r", "d", ".", "T", "E", "S", "T", ".", "J", "S">>
f_board_spec == <<"b", "o", "a", "r", "d", ".", "s", "p", "e", "c", ".", "j", "s">>
f_upload == <<"u", "p", "l", "o", "a", "d", ".", "t", "s">>
f_board_md == <<"b", "o", "a", "r", "d", ".", "m", "d">>
f_model_js == <<"m", "o", "d", "e", "l", ".", "j", "s">>
f_card_ts == <<"c", "a", "r", "d", ".", "t", "s">>
f_summary == <<"s", "u", "m", "m", "a", "r", "y", ".", "t", "x", "t">>
f_combined == <<"a", "l", "l", "_", "s", "o", "u", "r", "c", "e", "_", "f", "i", "l", "e", "s", "_", "c", "o", "m", "b", "i", "n", "e", "d", ".", "t", "x", "t">>
f_index_js == <<"i", "n", "d", "e", "x", ".", "j", "s">>
n_srv == <<"s", "r", "v">>
n_proj == <<"p", "r", "o", "j">>
n_webapp == <<"w", "e", "b", "a", "p", "p">>
s_source_files_txt == <<"_", "s", "o", "u", "r", "c", "e", "_", "f", "i", "l", "e", "s", ".", "t", "x", "t">>
s_project == <<"p", "r", "o", "j", "e", "c", "t">>

\* where the project may be checked out: a path with no include substring in
\* it, and one with "app" in it
RootChoices == {<<n_srv, n_proj>>, <<n_srv, n_webapp>>}

Platforms == {"posix", "nt"}

\* the files a walked tree is drawn from
WalkUniverse ==
    {<<n_app, f_TrelloBoard>>, <<n_app, f_Readme>>, <<n_app, f_BoardTEST>>,
     <<n_app, f_board_spec>>, <<n_app, n_utils, f_upload>>, <<n_lib, n_utils>>,
     <<n_docs, f_board_md>>, <<n_src, n_node_modules, n_react, f_model_js>>,
     <<f_board_md>>, <<n_mapper, f_card_ts>>}

\* a readable file with nothing in it, and a directory
Plain == [readable |-> TRUE, text |-> <<>>, isdir |-> FALSE]
DirEntry == [readable |-> FALSE, text |-> <<>>, isdir |-> TRUE]

NoScan == content = <<>> /\ stmts = <<>> /\ dependencies = {}

NoRun == processed_dirs = <<>> /\ run = 0 /\ prev = <<>>

InitWalk ==
    /\ platform \in Platforms
    /\ root_segs \in RootChoices
    /\ \E tree \in {t \in SUBSET WalkUniverse : Cardinality(t) <= MaxFiles} :
           fs = [p \in tree |-> Plain]
    /\ walk = WalkStart
    /\ pc = "walk"
    /\ NoScan
    /\ NoRun

\* one iteration of the for loop of line 24
WalkStep ==
    /\ pc = "walk"
    /\ walk.stack # <<>>
    /\ walk' = WalkVisit(walk, fs, AbsPath(root_segs, platform), platform)
    /\ UNCHANGED <<platform, root_segs, fs, pc, processed_dirs, run, prev, content,
                   stmts, dependencies>>

\* line 44: os.walk is exhausted and the three lists are returned
WalkReturn ==
    /\ pc = "walk"
    /\ walk.stack = <<>>
    /\ pc' = "walked"
    /\ UNCHANGED <<platform, root_segs, fs, walk, processed_dirs, run, prev, content,
                   stmts, dependencies>>

NextWalk == WalkStep \/ WalkReturn

SpecWalk == InitWalk /\ [][NextWalk]_vars

\* the strings of the three lists
Listed == Elems(walk.all_files) \cup Elems(walk.included_files) \cup Elems(walk.excluded_files)

\* the relative path string of a file of the tree
RelString(path) == Join(<<Sep(platform)>>, path)

NoDuplicates(seq) == \A i, j \in 1..Len(seq) : seq[i] = seq[j] => i = j

\* C1: every path of all_files is in exactly one of included_files and
\* excluded_files, the two lists hold nothing else and nothing twice, so that
\* len(included) + len(excluded) is the number of files discovered.
C1_Partition ==
    pc \in {"walk", "walked"} =>
        /\ Elems(walk.included_files) \cup Elems(walk.excluded_files) = Elems(walk.all_files)
        /\ Elems(walk.included_files) \cap Elems(walk.excluded_files) = {}
        /\ NoDuplicates(walk.included_files \o walk.excluded_files)
        /\ Len(walk.included_files) + Len(walk.excluded_files) = Len(walk.all_files)

\* a finished walk that put files in both lists
C1_Witness ==
    /\ pc = "walked"
    /\ Len(walk.included_files) >= 1
    /\ Len(walk.excluded_files) >= 2

\* the names of the directories above a file, and the file's own name
DirOf(path) == SubSeq(path, 1, Len(path) - 1)
NameOf(path) == path[Len(path)]

\* the files of the tree whose relative path is in one of the three lists
ListedFiles == {path \in DOMAIN fs : RelString(path) \in Listed}

\* C2 as claimed: no listed relative path has an exclusion-folder name as one
\* of its path segments.
C2_NoExcludedSegment ==
    \A s \in Listed :
        \A seg \in Elems(Split(s, Sep(platform))) : seg \notin Elems(EXCLUDE_FOLDERS)

\* C2 as amended: no listed relative path has an exclusion-folder name as one
\* of its directory segments (the segments before the file's own name), at
\* any depth; so no file below an exclusion folder is ever listed.
C2_NoExcludedDirSegment ==
    /\ \A s \in Listed :
           LET segs == Split(s, Sep(platform))
           IN  \A i \in 1..(Len(segs) - 1) : segs[i] \notin Elems(EXCLUDE_FOLDERS)
    /\ \A path \in DOMAIN fs :
           (\E i \in 1..(Len(path) - 1) : path[i] \in Elems(EXCLUDE_FOLDERS))
               => RelString(path) \notin Listed

\* a finished walk of a tree with a file two levels below node_modules and a
\* file below utils, which listed another file
C2_Witness ==
    /\ pc = "walked"
    /\ <<n_src, n_node_modules, n_react, f_model_js>> \in DOMAIN fs
    /\ <<n_app, n_utils, f_upload>> \in DOMAIN fs
    /\ Len(walk.all_files) >= 1

\* the directory path of a file relative to the walked root holds an include substring
RelGateOpen(path) ==
    \E subdir \in Elems(INCLUDE_SUBDIRS) : Contains(RelString(DirOf(path)), subdir)

\* C3 as claimed: wherever the root is, a file whose directory path relative to
\* the root holds no include substring is never listed, and a file whose
\* directory path holds one, below no exclusion folder, is in all_files once
\* the walk is over.
C3_RelativeGate ==
    /\ \A path \in ListedFiles : RelGateOpen(path)
    /\ pc = "walked" =>
           \A path \in DOMAIN fs :
               (/\ RelGateOpen(path)
                /\ \A i \in 1..(Len(path) - 1) : path[i] \notin Elems(EXCLUDE_FOLDERS))
                   => RelString(path) \in Elems(walk.all_files)

\* the three tests of the classification, each in lower case
AdmittedAnyCase(file) ==
    /\ \E t \in Elems(FILE_TYPES) : EndsWith(Lower(file), t)
    /\ ~\E pattern \in Elems(EXCLUDE_FILES) : GlobMatch(Lower(file), Lower(pattern))

\* C4 as claimed: a file that passed the gate is INCLUDED exactly when its name
\* ends with an admitted extension, matches no exclusion glob and its relative
\* path holds a relevance keyword, all three whatever the letter case; it is
\* EXCLUDED otherwise.
C4_CaseInsensitiveClassification ==
    pc = "walked" =>
        \A path \in DOMAIN fs :
            RelString(path) \in Elems(walk.all_files) =>
                LET inc == AdmittedAnyCase(NameOf(path)) /\ Relevant(RelString(path))
                IN  /\ RelString(path) \in Elems(walk.included_files) <=> inc
                    /\ RelString(path) \in Elems(walk.excluded_files) <=> ~inc

(***************************************************************************)
(* Files read and written by the pipeline. What a written file holds is    *)
(* the sequence of the chunks written to it, one per f.write call.         *)
(***************************************************************************)
f_packsource == <<"p", "a", "c", "k", "s", "o", "u", "r", "c", "e", ".", "p", "y">>

\* lines 8-10: OUTPUT_DIR, as names below ROOT_DIR
OUTPUT_DIR == <<n_utils, n_output>>

\* line 126: plugin_dir
PluginDir == Append(OUTPUT_DIR, n_payload_plugin)

Chunk(kind, arg) == [kind |-> kind, arg |-> arg]

\* open(path, 'w') followed by the writes: the file holds `text` afterwards
Put(disk, path, text) ==
    [x \in DOMAIN disk \cup {path} |->
        IF x = path THEN [readable |-> TRUE, text |-> text, isdir |-> FALSE] ELSE disk[x]]

\* os.makedirs(path, exist_ok=True)
MakeDirs(disk, path) ==
    [x \in DOMAIN disk \cup {path} |-> IF x \in DOMAIN disk THEN disk[x] ELSE DirEntry]

\* open(path, 'r', encoding='utf-8') and read(): the text, or an exception
\* (ok is FALSE) when the file cannot be opened or decoded
ReadFile(disk, path) ==
    IF path \in DOMAIN disk /\ ~disk[path].isdir /\ disk[path].readable
    THEN [ok |-> TRUE, text |-> disk[path].text]
    ELSE [ok |-> FALSE, text |-> <<>>]

\* the file os.path.join(root_dir, file) names, file being a relative path of a list
PathOf(file, pl) == Split(file, Sep(pl))

(***************************************************************************)
(* write_source_files (lines 56-77)                                        *)
(***************************************************************************)
\* a plausible slip: what could be decoded is written before the error marker
WriteIncluded_Partial(acc, file, disk, pl) ==
    LET path == PathOf(file, pl)
        r == ReadFile(disk, path)
        head == Append(acc.out, Chunk("path", file))
    IN  IF r.ok
        THEN [out |-> head \o <<Chunk("content", r.text), Chunk("blank", <<>>)>>,
              deps |-> acc.deps \cup ExtractDependencies(r.text)]
        ELSE [out |-> head \o <<Chunk("content", disk[path].text), Chunk("error", <<>>),
                                Chunk("blank", <<>>)>>,
              deps |-> acc.deps]

\* a plausible slip: the imports of a file that cannot be read are counted
WriteIncluded_DepsOnError(acc, file, disk, pl) ==
    LET path == PathOf(file, pl)
        r == ReadFile(disk, path)
        head == Append(acc.out, Chunk("path", file))
    IN  IF r.ok
        THEN [out |-> head \o <<Chunk("content", r.text), Chunk("blank", <<>>)>>,
              deps |-> acc.deps \cup ExtractDependencies(r.text)]
        ELSE [out |-> head \o <<Chunk("error", <<>>), Chunk("blank", <<>>)>>,
              deps |-> acc.deps \cup ExtractDependencies(disk[path].text)]

\* lines 61-71: one included file: its path line, then its content and its
\* imports, or (the read raised) the error marker; then the blank lines
WriteIncluded(acc, file, disk, pl) ==
    LET r == ReadFile(disk, PathOf(file, pl))
        head == Append(acc.out, Chunk("path", file))
    IN  IF r.ok
        THEN [out |-> head \o <<Chunk("content", r.text), Chunk("blank", <<>>)>>,
              deps |-> acc.deps \cup ExtractDependencies(r.text)]
        ELSE [out |-> head \o <<Chunk("error", <<>>), Chunk("blank", <<>>)>>,
              deps |-> acc.deps]

\* lines 60-71: the loop over included_files
RECURSIVE WriteIncludedAll(_, _, _, _)
WriteIncludedAll(acc, files, disk, pl) ==
    IF files = <<>> THEN acc
    ELSE WriteIncludedAll(WriteIncluded(acc, Head(files), disk, pl), Tail(files), disk, pl)

\* write_source_files: what it writes to output_file and the set it returns
WriteSourceFiles(included_files, excluded_files, disk, pl) ==
    LET inc == WriteIncludedAll([out |-> <<Chunk("included_header", <<>>)>>, deps |-> {}],
                                included_files, disk, pl)
    IN  [out |-> inc.out \o <<Chunk("excluded_header", <<>>)>>
                    \o [i \in 1..Len(excluded_files) |-> Chunk("path", excluded_files[i])],
         deps |-> inc.deps]

(***************************************************************************)
(* generate_summary (lines 94-108)                                         *)
(***************************************************************************)
comma_space == <<",", " ">>

\* lines 100-106: the lines of one directory, and its names added to the union
SummaryDir(acc, e) ==
    LET all_files == e.included_files \o e.excluded_files
    IN  [out |-> acc.out \o
                    <<Chunk("dir", e.dir_name),
                      Chunk("total", Len(all_files)),
                      Chunk("included", Len(e.included_files)),
                      Chunk("excluded", Len(e.excluded_files)),
                      Chunk("deps", Join(comma_space, Sorted(e.dependencies)))>>,
         all_dependencies |-> acc.all_dependencies \cup e.dependencies]

RECURSIVE SummaryDirs(_, _)
SummaryDirs(acc, entries) ==
    IF entries = <<>> THEN acc
    ELSE SummaryDirs(SummaryDir(acc, Head(entries)), Tail(entries))

\* what generate_summary writes to summary.txt
GenerateSummary(entries) ==
    LET r == SummaryDirs([out |-> <<Chunk("title", <<>>)>>, all_dependencies |-> {}], entries)
    IN  Append(r.out, Chunk("all_deps", Join(comma_space, Sorted(r.all_dependencies))))

(***************************************************************************)
(* combine_all_files (lines 110-123)                                       *)
(***************************************************************************)
\* lines 116-122: one included file, read again from disk
CombineIncluded(out, file, disk, pl) ==
    LET r == ReadFile(disk, PathOf(file, pl))
    IN  Append(out, Chunk("path", file))
            \o <<IF r.ok THEN Chunk("content", r.text) ELSE Chunk("error", <<>>),
                 Chunk("blank", <<>>)>>

RECURSIVE CombineIncludedAll(_, _, _, _)
CombineIncludedAll(out, files, disk, pl) ==
    IF files = <<>> THEN out
    ELSE CombineIncludedAll(CombineIncluded(out, Head(files), disk, pl), Tail(files), disk, pl)

\* lines 113-122: the directories of processed_dirs in turn
RECURSIVE CombineDirs(_, _, _, _)
CombineDirs(out, entries, disk, pl) ==
    IF entries = <<>> THEN out
    ELSE LET e == Head(entries)
         IN  CombineDirs(CombineIncludedAll(Append(out, Chunk("files_from", e.dir_name)),
                                            e.included_files, disk, pl),
                         Tail(entries), disk, pl)

\* what combine_all_files writes to all_source_files_combined.txt
CombineAllFiles(entries, disk, pl) == CombineDirs(<<>>, entries, disk, pl)

(***************************************************************************)
(* package_as_payload_plugin (lines 125-151)                               *)
(***************************************************************************)
\* line 132
IsArtifactName(file) == EndsWith(file, s_source_files_txt) \/ file \in {f_summary, f_combined}

\* lines 133-136: src is opened for reading, then dst is opened with 'w',
\* which creates it or empties it, and only then src is read
CopyFile(disk, src_path, dst_path) ==
    LET opened == Put(disk, dst_path, <<>>)
    IN  Put(opened, dst_path, opened[src_path].text)

\* lines 131-136: the files of one directory of the walk
RECURSIVE CopyFiles(_, _, _)
CopyFiles(disk, root, files) ==
    IF files = <<>> THEN disk
    ELSE LET file == Head(files)
             next == IF IsArtifactName(file)
                     THEN CopyFile(disk, Append(root, file), Append(PluginDir, file))
                     ELSE disk
         IN  CopyFiles(next, root, Tail(files))

\* line 130: os.walk(OUTPUT_DIR), top down. A directory is listed when the walk
\* reaches it, after the loop body has run for the directories before it.
RECURSIVE CopyWalk(_, _)
CopyWalk(disk, stack) ==
    IF stack = <<>> THEN disk
    ELSE LET root == Head(stack)
             dirs == Sorted(ChildDirs(disk, root))
             files == Sorted(ChildFiles(disk, root))
             below == [i \in 1..Len(dirs) |-> Append(root, dirs[i])]
         IN  CopyWalk(CopyFiles(disk, root, files), below \o Tail(stack))

\* the disk after package_as_payload_plugin
PackageAsPayloadPlugin(disk) ==
    LET made == MakeDirs(disk, PluginDir)
        copied == CopyWalk(made, <<OUTPUT_DIR>>)
    IN  Put(copied, Append(PluginDir, f_index_js), <<Chunk("scaffold", <<>>)>>)

(***************************************************************************)
(* The run of the script (lines 11, 79-92, 153-162)                        *)
(***************************************************************************)
\* line 83: output_file
ReportPath(dir_name) == Append(OUTPUT_DIR, dir_name \o s_source_files_txt)
SummaryPath == Append(OUTPUT_DIR, f_summary)
CombinedPath == Append(OUTPUT_DIR, f_combined)

\* the texts of the project's files
TextA ==
    RenderAll(<<[tmpl |-> "default", spec |-> sp_react],
                [tmpl |-> "named", spec |-> sp_local]>>)
TextB ==
    RenderAll(<<[tmpl |-> "named", spec |-> sp_scope],
                [tmpl |-> "default", spec |-> sp_lodash]>>)

\* a file with one of the texts, or one that cannot be decoded
FileChoices ==
    {[readable |-> TRUE, text |-> TextA, isdir |-> FALSE],
     [readable |-> TRUE, text |-> TextB, isdir |-> FALSE],
     [readable |-> FALSE, text |-> TextB, isdir |-> FALSE]}

\* the files a project is drawn from
SourceUniverse ==
    {<<n_app, f_TrelloBoard>>, <<n_app, f_card_ts>>, <<n_app, f_Readme>>,
     <<n_docs, f_board_md>>}

\* the script itself, and OUTPUT_DIR, which line 11 makes when the module loads
ScriptDisk ==
    MakeDirs(Put(<<>>, <<n_utils, f_packsource>>, <<>>), OUTPUT_DIR)

\* the report and the summary on disk (<<>> for a file that is not there)
Artifacts(disk) ==
    [report |-> IF ReportPath(s_project) \in DOMAIN disk
                THEN <<disk[ReportPath(s_project)].text>> ELSE <<>>,
     summary |-> IF SummaryPath \in DOMAIN disk THEN <<disk[SummaryPath].text>> ELSE <<>>]

Init ==
    /\ platform \in Platforms
    /\ root_segs \in RootChoices
    /\ \E present \in {t \in SUBSET SourceUniverse : Cardinality(t) <= MaxFiles} :
         \E src \in [present -> FileChoices] :
            fs = [x \in present \cup DOMAIN ScriptDisk |->
                     IF x \in present THEN src[x] ELSE ScriptDisk[x]]
    /\ walk = WalkStart
    /\ processed_dirs = <<>>
    /\ run = 1
    /\ prev = <<>>
    /\ pc = "start"
    /\ NoScan

\* line 157 and process_directory (lines 79-92) for 'project' and ROOT_DIR
ProcessDirectory ==
    /\ pc = "start"
    /\ LET w == GetAllFiles(fs, AbsPath(root_segs, platform), platform)
           r == IF w.all_files # <<>>
                THEN WriteSourceFiles(w.included_files, w.excluded_files, fs, platform)
                ELSE [out |-> <<>>, deps |-> {}]
       IN  /\ walk' = w
           /\ fs' = IF w.all_files # <<>> THEN Put(fs, ReportPath(s_project), r.out) ELSE fs
           /\ processed_dirs' =
                  <<[dir_name |-> s_project,
                     dir_path |-> AbsPath(root_segs, platform),
                     included_files |-> w.included_files,
                     excluded_files |-> w.excluded_files,
                     dependencies |-> r.deps]>>
    /\ pc' = "summary"
    /\ UNCHANGED <<platform, root_segs, run, prev, content, stmts, dependencies>>

\* line 159
GenerateSummaryStep ==
    /\ pc = "summary"
    /\ fs' = Put(fs, SummaryPath, GenerateSummary(processed_dirs))
    /\ pc' = "combine"
    /\ UNCHANGED <<platform, root_segs, walk, processed_dirs, run, prev, content, stmts,
                   dependencies>>

\* line 160
CombineAllFilesStep ==
    /\ pc = "combine"
    /\ fs' = Put(fs, CombinedPath, CombineAllFiles(processed_dirs, fs, platform))
    /\ pc' = "package"
    /\ UNCHANGED <<platform, root_segs, walk, processed_dirs, run, prev, content, stmts,
                   dependencies>>

\* line 161
PackageStep ==
    /\ pc = "package"
    /\ fs' = PackageAsPayloadPlugin(fs)
    /\ pc' = "print"
    /\ UNCHANGED <<platform, root_segs, walk, processed_dirs, run, prev, content, stmts,
                   dependencies>>

\* line 162: the completion line; the process ends
Complete ==
    /\ pc = "print"
    /\ pc' = "complete"
    /\ UNCHANGED <<platform, root_segs, fs, walk, processed_dirs, run, prev, content, stmts,
                   dependencies>>

\* the script is started again on the tree it left (lines 11 and 154)
Rerun ==
    /\ pc = "complete"
    /\ run < MaxRuns
    /\ run' = run + 1
    /\ prev' = Artifacts(fs)
    /\ fs' = MakeDirs(fs, OUTPUT_DIR)
    /\ processed_dirs' = <<>>
    /\ walk' = WalkStart
    /\ pc' = "start"
    /\ UNCHANGED <<platform, root_segs, content, stmts, dependencies>>

Next ==
    \/ ProcessDirectory
    \/ GenerateSummaryStep
    \/ CombineAllFilesStep
    \/ PackageStep
    \/ Complete
    \/ Rerun

Spec == Init /\ [][Next]_vars

\* the positions of the script after process_directory, after generate_summary
\* and after combine_all_files
AfterProcess == {"summary", "combine", "package", "print", "complete"}
AfterSummary == {"combine", "package", "print", "complete"}
AfterCombine == {"package", "print", "complete"}

\* an included file whose read raises
Unreadable(file) == ~ReadFile(fs, PathOf(file, platform)).ok

\* the three chunks of included file `file` start at out[base]: the path line,
\* then the whole content or the error marker alone, then the blank lines
BlockOf(out, base, file) ==
    /\ out[base] = Chunk("path", file)
    /\ IF Unreadable(file)
       THEN out[base + 1] = Chunk("error", <<>>)
       ELSE out[base + 1] = Chunk("content", fs[PathOf(file, platform)].text)
    /\ out[base + 2] = Chunk("blank", <<>>)

\* C6: a file that cannot be read is never fatal. The report and the combined
\* file hold, for every included file in turn, its path line, then its content
\* or (unreadable) exactly the error marker, then the separator; the report
\* goes on with the excluded section; the file stays in included_files and in
\* the summary's included count, whatever step the script has reached.
C6_ReadFailureNeverFatal ==
    /\ (pc \in AfterProcess /\ walk.all_files # <<>>) =>
           LET e == processed_dirs[1]
               inc == e.included_files
               exc == e.excluded_files
               rep == fs[ReportPath(s_project)].text
           IN  /\ inc = walk.included_files
               /\ Len(rep) = 1 + 3 * Len(inc) + 1 + Len(exc)
               /\ rep[1] = Chunk("included_header", <<>>)
               /\ \A i \in 1..Len(inc) : BlockOf(rep, 3 * i - 1, inc[i])
               /\ rep[3 * Len(inc) + 2] = Chunk("excluded_header", <<>>)
               /\ \A j \in 1..Len(exc) : rep[3 * Len(inc) + 2 + j] = Chunk("path", exc[j])
    /\ pc \in AfterSummary =>
           LET sum == fs[SummaryPath].text
           IN  /\ sum[3] = Chunk("total", Len(walk.all_files))
               /\ sum[4] = Chunk("included", Len(walk.included_files))
    /\ pc \in AfterCombine =>
           LET inc == processed_dirs[1].included_files
               comb == fs[CombinedPath].text
           IN  /\ Len(comb) = 1 + 3 * Len(inc)
               /\ \A i \in 1..Len(inc) : BlockOf(comb, 3 * i - 1, inc[i])

\* a run that reached its completion line with an unreadable included file
\* followed by a readable one, and an excluded file
C6_Witness ==
    /\ pc = "complete"
    /\ Len(walk.included_files) = 2
    /\ Unreadable(walk.included_files[1])
    /\ ~Unreadable(walk.included_files[2])
    /\ Len(walk.excluded_files) >= 1

\* C7: a second run on the tree the first run left writes the same report and
\* the same summary, and no walk ever lists a file of the output directory.
C7_Idempotent ==
    /\ (pc = "complete" /\ run >= 2) => Artifacts(fs) = prev
    /\ \A s \in Listed : ~IsPrefix(OUTPUT_DIR, PathOf(s, platform))

\* a second run completed on a project checked out where every directory
\* passes the gate, with a report written by both runs
C7_Witness ==
    /\ pc = "complete"
    /\ run = 2
    /\ root_segs = <<n_srv, n_webapp>>
    /\ prev.report # <<>>
    /\ Len(walk.included_files) >= 1
    /\ Append(PluginDir, f_summary) \in DOMAIN fs

\* the names of the artifacts package_as_payload_plugin is to copy
ArtifactNames == {s_project \o s_source_files_txt, f_summary, f_combined}

\* C8 as claimed: package_as_payload_plugin leaves the artifacts of the output
\* directory unchanged and leaves in the plugin directory, for each of them, a
\* file of the same name with the same content, and the scaffold index.js.
C8_PluginHoldsCopies ==
    [][pc = "package" =>
          /\ \A f \in ArtifactNames :
                 Append(OUTPUT_DIR, f) \in DOMAIN fs =>
                     /\ fs'[Append(OUTPUT_DIR, f)] = fs[Append(OUTPUT_DIR, f)]
                     /\ Append(PluginDir, f) \in DOMAIN fs'
                     /\ fs'[Append(PluginDir, f)].text = fs[Append(OUTPUT_DIR, f)].text
          /\ fs'[Append(PluginDir, f_index_js)].text = <<Chunk("scaffold", <<>>)>>]_vars

\* the files of the project that are in included_files and can be read
ReadableIncluded(e) ==
    {p \in DOMAIN fs :
        /\ RelString(p) \in Elems(e.included_files)
        /\ ReadFile(fs, p).ok}

IsAscending(seq) == \A i, j \in 1..Len(seq) : i < j => StrLess(seq[i], seq[j])

\* C9: the set write_source_files returns is the union of the imports of the
\* included files that were read, nothing from excluded or unreadable files;
\* the summary's last line is that union in ascending order, comma-joined, and
\* generate_summary leaves the set as it was.
C9_DependencyUnion ==
    pc \in AfterProcess =>
        LET e == processed_dirs[1]
            union == UNION {ExtractDependencies(fs[p].text) : p \in ReadableIncluded(e)}
        IN  /\ e.dependencies = union
            /\ pc \in AfterSummary =>
                   LET sum == fs[SummaryPath].text
                       names == Sorted(union)
                   IN  /\ IsAscending(names)
                       /\ Elems(names) = union
                       /\ sum[Len(sum)] = Chunk("all_deps", Join(comma_space, names))

\* the summary is written for a project with a readable included file that
\* imports, an unreadable included file and an excluded file with imports
C9_Witness ==
    /\ pc = "combine"
    /\ <<n_app, f_Readme>> \in DOMAIN fs
    /\ fs[<<n_app, f_Readme>>].readable
    /\ Len(walk.included_files) = 2
    /\ ~Unreadable(walk.included_files[1])
    /\ Unreadable(walk.included_files[2])
    /\ Cardinality(processed_dirs[1].dependencies) >= 1

====
